---- MODULE Spec2Model ----
(***************************************************************************)
(* Model of research.py: a sequential pipeline that, for each of six       *)
(* sections, asks a generative API for search queries, scrapes the pages   *)
(* a search provider returns, rewrites the aggregated text as prose,       *)
(* enforces a length cap and finally writes one document.                  *)
(*                                                                         *)
(* Text.  A Python str is modelled as a run-length encoded sequence of     *)
(* characters: a sequence of runs [c |-> character, n |-> count] kept in   *)
(* normal form (every count >= 1, adjacent runs differ in c), so that two  *)
(* texts are equal exactly when the strings are equal and texts of 50,000  *)
(* characters stay small.  The alphabet is the printable ASCII characters  *)
(* together with space, "\t", "\n", "\r" and "\f".                         *)
(*                                                                         *)
(* External calls.  What the network answers is an input of the step that  *)
(* makes the call: a page fetch, a search and a generative-API request     *)
(* each take their outcome from a small set.                               *)
(***************************************************************************)
EXTENDS Integers, Sequences, FiniteSets

(***************************************************************************)
(* Python str operations on run-length encoded text                        *)
(***************************************************************************)

\* The empty string.
Empty == << >>

\* c repeated n times, as in Python's  c * n.
Rep(c, n) == IF n > 0 THEN << [c |-> c, n |-> n] >> ELSE << >>

\* a + b, for two texts in normal form: the runs meeting at the seam are merged.
Cat(a, b) ==
    IF a = << >> THEN b
    ELSE IF b = << >> THEN a
    ELSE IF a[Len(a)].c = b[1].c
         THEN SubSeq(a, 1, Len(a) - 1)
              \o << [c |-> b[1].c, n |-> a[Len(a)].n + b[1].n] >>
              \o Tail(b)
         ELSE a \o b

\* A string literal, given character by character.
RECURSIVE Lit(_)
Lit(chars) ==
    IF chars = << >> THEN Empty
    ELSE Cat(Lit(SubSeq(chars, 1, Len(chars) - 1)),
             << [c |-> chars[Len(chars)], n |-> 1] >>)

\* len(t)
RECURSIVE StrLen(_)
StrLen(t) == IF t = << >> THEN 0 ELSE Head(t).n + StrLen(Tail(t))

\* The first k characters of t, for 0 <= k.
RECURSIVE Take(_, _)
Take(t, k) ==
    IF t = << >> \/ k <= 0 THEN << >>
    ELSE IF Head(t).n >= k THEN << [c |-> Head(t).c, n |-> k] >>
         ELSE << Head(t) >> \o Take(Tail(t), k - Head(t).n)

\* t[:k]: a negative k counts from the end of the string.
Prefix(t, k) == IF k >= 0 THEN Take(t, k) ELSE Take(t, StrLen(t) + k)

\* The characters str.strip() removes, within the alphabet.
Whitespace == {" ", "\t", "\n", "\r", "\f"}

\* The characters on which str.splitlines() breaks, within the alphabet.
LineBreaks == {"\n", "\r", "\f"}

RECURSIVE LStrip(_)
LStrip(t) ==
    IF t = << >> THEN << >>
    ELSE IF Head(t).c \in Whitespace THEN LStrip(Tail(t)) ELSE t

RECURSIVE RStrip(_)
RStrip(t) ==
    IF t = << >> THEN << >>
    ELSE IF t[Len(t)].c \in Whitespace THEN RStrip(SubSeq(t, 1, Len(t) - 1)) ELSE t

\* t.strip()
Strip(t) == RStrip(LStrip(t))

\* sep.join(ts)
RECURSIVE Join(_, _)
Join(sep, ts) ==
    IF ts = << >> THEN Empty
    ELSE IF Len(ts) = 1 THEN ts[1]
         ELSE Cat(Cat(ts[1], sep), Join(sep, Tail(ts)))

\* t.splitlines(), reading the runs rs left to right with the line so far in cur;
\* afterCR says that the previous run was "\r", whose last character pairs with a
\* following "\n" into one line break.
RECURSIVE SplitFrom(_, _, _)
SplitFrom(rs, cur, afterCR) ==
    IF rs = << >> THEN (IF cur = << >> THEN << >> ELSE << cur >>)
    ELSE LET h == Head(rs) IN
         IF h.c \in LineBreaks
         THEN LET nb == IF h.c = "\n" /\ afterCR THEN h.n - 1 ELSE h.n
              IN  (IF nb >= 1 THEN << cur >> \o [i \in 1..(nb - 1) |-> Empty] ELSE << >>)
                  \o SplitFrom(Tail(rs), << >>, h.c = "\r")
         ELSE SplitFrom(Tail(rs), cur \o << h >>, FALSE)

SplitLines(t) == SplitFrom(t, << >>, FALSE)

\* The string as a plain sequence of characters (for the substring test).
RECURSIVE Expand(_)
Expand(t) ==
    IF t = << >> THEN << >>
    ELSE [i \in 1..Head(t).n |-> Head(t).c] \o Expand(Tail(t))

\* needle in hay, for two strings.
Contains(hay, needle) ==
    LET h == Expand(hay)
        x == Expand(needle)
    IN  \E i \in 0..(Len(h) - Len(x)) : \A j \in 1..Len(x) : h[i + j] = x[j]

(***************************************************************************)
(* JSON values, as response.json() returns them                            *)
(***************************************************************************)

JStr(s) == [t |-> "str", s |-> s]
JList(items) == [t |-> "list", items |-> items]
\* kv is a function from the keys (TLA+ strings) to JSON values.
JDict(kv) == [t |-> "dict", kv |-> kv]
\* A number, a boolean or null; all the code reads of it is its truth value.
JOther(truthy) == [t |-> "other", truthy |-> truthy]

NoKeys == << >>

\* bool(v)
Truthy(v) ==
    CASE v.t = "str" -> v.s # Empty
      [] v.t = "list" -> v.items # << >>
      [] v.t = "dict" -> DOMAIN v.kv # {}
      [] OTHER -> v.truthy

\* The result of an evaluation that may raise: exc says that it raised.
Raised == [exc |-> TRUE, val |-> Empty]
Value(v) == [exc |-> FALSE, val |-> v]

(***************************************************************************)
(* Reply parsing shared by the three generative-API callers                *)
(***************************************************************************)

\* item.get("text", "")
ItemText(item) == IF "text" \in DOMAIN item.kv THEN item.kv["text"] ELSE JStr(Empty)

\* sep.join(item.get("text", "") for item in content_val if isinstance(item, dict));
\* str.join raises TypeError on an element that is not a str.
JoinTexts(sep, items) ==
    LET dicts == SelectSeq(items, LAMBDA it : it.t = "dict")
        got == [i \in 1..Len(dicts) |-> ItemText(dicts[i])]
    IN  IF \E i \in 1..Len(got) : got[i].t # "str" THEN Raised
        ELSE Value(Join(sep, [i \in 1..Len(got) |-> got[i].s]))

\* The isinstance(content_val, list) / isinstance(content_val, str) branches.
ContentOf(content_val, sep) ==
    CASE content_val.t = "list" -> JoinTexts(sep, content_val.items)
      [] content_val.t = "str" -> Value(Strip(content_val.s))
      [] OTHER -> Value(Empty)

\* The text extracted from the decoded reply `result`; blocks are joined with sep.
ExtractText(result, sep) ==
    CASE result.t = "dict" ->
            IF "content" \in DOMAIN result.kv
            THEN ContentOf(result.kv["content"], sep)
            ELSE IF "messages" \in DOMAIN result.kv /\ Truthy(result.kv["messages"])
                 THEN LET m == result.kv["messages"] IN
                      \* result["messages"][0].get(...) raises unless messages is a
                      \* list whose first item is a dict
                      IF m.t = "list" /\ m.items[1].t = "dict"
                      THEN ContentOf(IF "content" \in DOMAIN m.items[1].kv
                                     THEN m.items[1].kv["content"]
                                     ELSE JStr(Empty), sep)
                      ELSE Raised
                 ELSE Value(Empty)
      [] result.t = "list" ->
            \* a key found in the list is then used as a list index: TypeError
            IF \E i \in 1..Len(result.items) :
                  /\ result.items[i].t = "str"
                  /\ result.items[i].s \in
                        {Lit(<<"c", "o", "n", "t", "e", "n", "t">>),
                         Lit(<<"m", "e", "s", "s", "a", "g", "e", "s">>)}
            THEN Raised
            ELSE Value(Empty)
      [] result.t = "str" ->
            \* a key found as a substring is then used as a string index: TypeError
            IF \/ Contains(result.s, Lit(<<"c", "o", "n", "t", "e", "n", "t">>))
               \/ Contains(result.s, Lit(<<"m", "e", "s", "s", "a", "g", "e", "s">>))
            THEN Raised
            ELSE Value(Empty)
      [] OTHER -> Raised   \* "content" in <number, bool or None>: TypeError

\* The outcome of one generative-API request: ok is FALSE when requests.post,
\* raise_for_status or response.json raised; otherwise json is the decoded reply.
ApiFailure == [ok |-> FALSE, json |-> JOther(FALSE)]
ApiReply(json) == [ok |-> TRUE, json |-> json]

(***************************************************************************)
(* The functions of research.py                                            *)
(***************************************************************************)

\* el.get_text(strip=True): the element's strings, each stripped, the empty ones
\* dropped, concatenated.  An element is the sequence of its strings.
GetTextStrip(el) ==
    Join(Empty, SelectSeq([i \in 1..Len(el) |-> Strip(el[i])], LAMBDA s : s # Empty))

\* The outcome of one page fetch: ok is FALSE when requests.get, raise_for_status or
\* the parser raised; otherwise elements are the elements selected from the page.
FetchFailure == [ok |-> FALSE, elements |-> << >>]
FetchPage(elements) == [ok |-> TRUE, elements |-> elements]

\* scrape_page with its except branch returning the error's message.
scrape_page_message(response) ==
    IF ~response.ok THEN Lit(<<"E", "r", "r", "o", "r">>)
    ELSE LET texts == SelectSeq([i \in 1..Len(response.elements) |->
                                     GetTextStrip(response.elements[i])],
                                LAMBDA s : s # Empty)
         IN  Join(Lit(<<"\n">>), texts)

scrape_page(response) ==
    IF ~response.ok THEN Empty
    ELSE LET texts == SelectSeq([i \in 1..Len(response.elements) |->
                                     GetTextStrip(response.elements[i])],
                                LAMBDA s : s # Empty)
         IN  Join(Lit(<<"\n">>), texts)

SENTINEL == Lit(<<"N", "o", " ", "c", "o", "n", "t", "e", "n", "t", " ", "f", "o", "u", "n", "d", ".">>)

\* f"--- Content from {url} ---\n{text}\n\n"
Block(url, text) ==
    Cat(Cat(Cat(Cat(Lit(<<"-", "-", "-", " ", "C", "o", "n", "t", "e", "n", "t", " ", "f", "r", "o", "m", " ">>),
                    url),
                Lit(<<" ", "-", "-", "-", "\n">>)),
            text),
        Lit(<<"\n", "\n">>))

\* ScrapeLoop with  len(text) > min_length  for  len(text) >= min_length.
RECURSIVE ScrapeLoopStrict(_, _, _, _, _)
ScrapeLoopStrict(urls, pages, i, min_length, combined_text) ==
    IF i > Len(urls) THEN combined_text
    ELSE LET text == scrape_page(pages[i]) IN
         ScrapeLoopStrict(urls, pages, i + 1, min_length,
                          IF StrLen(text) > min_length
                          THEN Cat(combined_text, Block(urls[i], text))
                          ELSE combined_text)

\* The loop over urls from position i on; pages[i] is the fetch outcome of urls[i].
RECURSIVE ScrapeLoop(_, _, _, _, _)
ScrapeLoop(urls, pages, i, min_length, combined_text) ==
    IF i > Len(urls) THEN combined_text
    ELSE LET text == scrape_page(pages[i]) IN
         ScrapeLoop(urls, pages, i + 1, min_length,
                    IF StrLen(text) >= min_length
                    THEN Cat(combined_text, Block(urls[i], text))
                    ELSE combined_text)

\* The outcome of search(query, num_results=num_urls): ok is FALSE when it raised.
SearchFailure == [ok |-> FALSE, urls |-> << >>]
SearchFound(urls) == [ok |-> TRUE, urls |-> urls]

\* search() is called outside any try block: its exception leaves combined_scrape.
combined_scrape(found, pages, min_length) ==
    IF ~found.ok THEN Raised
    ELSE LET combined_text == ScrapeLoop(found.urls, pages, 1, min_length, Empty)
         IN  Value(IF combined_text # Empty THEN combined_text ELSE SENTINEL)

generate_search_queries(section, topic, api) ==
    LET fallback == << Cat(Cat(topic, Lit(<<" ">>)), section) >>
        content == ExtractText(api.json, Lit(<<"\n">>))
        lines == SplitLines(content.val)
    IN  IF ~api.ok \/ content.exc THEN fallback
        ELSE SelectSeq([i \in 1..Len(lines) |-> Strip(lines[i])], LAMBDA s : s # Empty)

format_text_with_ai(text, api) ==
    LET formatted_text == ExtractText(api.json, Lit(<<" ">>))
    IN  IF ~api.ok \/ formatted_text.exc THEN text
        ELSE IF formatted_text.val # Empty THEN formatted_text.val ELSE text

MARKER == Lit(<<" ", "[", "C", "o", "n", "t", "e", "n", "t", " ", "t", "r", "u", "n", "c", "a", "t", "e", "d", "]">>)

\* ensure_length_limit with  len(text) < limit  for  len(text) <= limit.
ensure_length_limit_strict(text, limit, api) ==
    LET summarized_text == ExtractText(api.json, Lit(<<" ">>))
    IN  IF StrLen(text) < limit THEN text
        ELSE IF ~api.ok \/ summarized_text.exc THEN Cat(Prefix(text, limit), MARKER)
        ELSE IF StrLen(summarized_text.val) > limit
             THEN Cat(Prefix(summarized_text.val, limit), MARKER)
             ELSE summarized_text.val

\* ensure_length_limit with the except branch cutting the text without the marker.
ensure_length_limit_bare_cut(text, limit, api) ==
    LET summarized_text == ExtractText(api.json, Lit(<<" ">>))
    IN  IF StrLen(text) <= limit THEN text
        ELSE IF ~api.ok \/ summarized_text.exc THEN Prefix(text, limit)
        ELSE IF StrLen(summarized_text.val) > limit
             THEN Cat(Prefix(summarized_text.val, limit), MARKER)
             ELSE summarized_text.val

ensure_length_limit(text, limit, api) ==
    LET summarized_text == ExtractText(api.json, Lit(<<" ">>))
    IN  IF StrLen(text) <= limit THEN text
        ELSE IF ~api.ok \/ summarized_text.exc THEN Cat(Prefix(text, limit), MARKER)
        ELSE IF StrLen(summarized_text.val) > limit
             THEN Cat(Prefix(summarized_text.val, limit), MARKER)
             ELSE summarized_text.val

(***************************************************************************)
(* main(): the program's state                                             *)
(***************************************************************************)

VARIABLES
    pc,                 \* the statement main() is at, or "raised" / "done"
    research_prompt,    \* the topic
    sec,                \* position of the current section in SECTIONS
    queries,            \* the current section's queries
    qi,                 \* position in queries of the query the loop is at
    full_query,         \* the query handed to the latest combined_scrape
    aggregated_text,
    formatted_section,
    limited_section,
    final_results,      \* dict, in insertion order: sequence of [section, content]
    out_file,           \* [writes: how often the file was written, data: its content]
    zero_urls,          \* history: every search of this run so far returned no URL
    api_requests,       \* generative-API requests issued by the latest call
    fn, args, ret,      \* a single call of one function: its name, arguments, result
    phase               \* of that call: "call" before it runs, "return" after

vars == << pc, research_prompt, sec, queries, qi, full_query, aggregated_text, formatted_section,
           limited_section, final_results, out_file, zero_urls, api_requests,
           fn, args, ret, phase >>

mainVars == << pc, research_prompt, sec, queries, qi, full_query, aggregated_text, formatted_section,
               limited_section, final_results, out_file, zero_urls >>

callVars == << fn, args, ret, phase >>

\* The keys of the sections dict, in declaration order.
SECTIONS ==
    << Lit(<<"I", "n", "t", "r", "o", "d", "u", "c", "t", "i", "o", "n">>),
       Lit(<<"L", "i", "t", "e", "r", "a", "t", "u", "r", "e", " ", "R", "e", "v", "i", "e", "w">>),
       Lit(<<"M", "e", "t", "h", "o", "d", "o", "l", "o", "g", "y">>),
       Lit(<<"R", "e", "s", "u", "l", "t", "s">>),
       Lit(<<"D", "i", "s", "c", "u", "s", "s", "i", "o", "n">>),
       Lit(<<"C", "o", "n", "c", "l", "u", "s", "i", "o", "n">>) >>

\* min_length's default in combined_scrape, which main() never overrides.
MIN_LENGTH == 100

\* num_urls, as main() passes it.
NUM_URLS == 3

\* The cap main() passes to ensure_length_limit.
SECTION_LIMIT == 50000

\* The width of the separator line.
SEPARATOR_WIDTH == 80

\* DictSet with every new key put in front of the others.
DictSetFront(d, key, value) ==
    IF \E i \in 1..Len(d) : d[i].section = key
    THEN [i \in 1..Len(d) |-> IF d[i].section = key
                              THEN [section |-> key, content |-> value] ELSE d[i]]
    ELSE << [section |-> key, content |-> value] >> \o d

\* d[key] = value on a dict kept in insertion order.
RECURSIVE DictSet(_, _, _)
DictSet(d, key, value) ==
    IF d = << >> THEN << [section |-> key, content |-> value] >>
    ELSE IF Head(d).section = key
         THEN << [section |-> key, content |-> value] >> \o Tail(d)
         ELSE << Head(d) >> \o DictSet(Tail(d), key, value)

\* The loop that builds research_paper from final_results.items().
RECURSIVE ResearchPaper(_)
ResearchPaper(results) ==
    IF results = << >> THEN Empty
    ELSE Cat(Join(Empty, << Head(results).section, Lit(<<":", "\n">>),
                            Head(results).content, Lit(<<"\n", "\n">>),
                            Rep("=", SEPARATOR_WIDTH), Lit(<<"\n", "\n">>) >>),
             ResearchPaper(Tail(results)))

(***************************************************************************)
(* What the network answers during a run of main()                         *)
(***************************************************************************)

U1 == Lit(<<"u", "1">>)
U2 == Lit(<<"u", "2">>)

\* A page whose single element holds n characters.
PageOfLength(n) == FetchPage(<< << Rep("x", n) >> >>)

\* A reply in the API's documented shape, {"content": [{"text": s}]}.
BlockReply(s) == ApiReply(JDict([content |-> JList(<< JDict([text |-> JStr(s)]) >>)]))

\* A reply of the shape {"content": s}.
StringReply(s) == ApiReply(JDict([content |-> JStr(s)]))

\* A reply that is a JSON object without any of the expected fields, {}.
BareReply == ApiReply(JDict(NoKeys))

Q1 == Lit(<<"q", "1">>)
Q2 == Lit(<<"q", "2">>)
PROSE == Lit(<<"P", "r", "o", "s", "e", ".">>)

\* Replies to the query-generation request: none, {}, and two queries on two lines.
MainQueryApis == << ApiFailure, BareReply, StringReply(Join(Lit(<<"\n">>), << Q1, Q2 >>)) >>

\* Outcomes of a search: an exception, no URL, one URL.
MainSearches == << SearchFailure, SearchFound(<< >>), SearchFound(<< U1 >>) >>

\* Outcomes of a page fetch: a failure, and a page longer than the section cap.
MainPages == << FetchFailure, PageOfLength(SECTION_LIMIT + 1) >>

\* Replies to the formatting and to the summarising request.
MainTextApis == << ApiFailure, BlockReply(PROSE) >>

Topics == { Lit(<<"a", "i">>) }

(***************************************************************************)
(* main(), one action per statement that calls out                         *)
(***************************************************************************)

NoCall == /\ fn = "main"
          /\ args = << >>
          /\ ret = << >>
          /\ phase = "call"

\* Lines 206-222: the prompt is read, final_results is empty, the loop is at the
\* first section.  (Without the API key the module raises at line 11, before main.)
Init ==
    /\ pc = "generate_search_queries"
    /\ research_prompt \in Topics
    /\ sec = 1
    /\ queries = << >>
    /\ qi = 1
    /\ full_query = Empty
    /\ aggregated_text = Empty
    /\ formatted_section = Empty
    /\ limited_section = Empty
    /\ final_results = << >>
    /\ out_file = [writes |-> 0, data |-> Empty]
    /\ zero_urls = TRUE
    /\ api_requests = 0
    /\ NoCall

\* Lines 227-228.
GenerateQueries ==
    /\ pc = "generate_search_queries"
    /\ \E a \in 1..Len(MainQueryApis) :
          queries' = generate_search_queries(SECTIONS[sec], research_prompt, MainQueryApis[a])
    /\ aggregated_text' = Empty
    /\ qi' = 1
    /\ api_requests' = 1
    /\ pc' = IF queries' = << >> THEN "format_text_with_ai" ELSE "combined_scrape"
    /\ UNCHANGED << research_prompt, sec, full_query, formatted_section, limited_section,
                    final_results, out_file, zero_urls, callVars >>

\* Lines 229-234, one iteration: an exception of combined_scrape is caught nowhere
\* and ends main().
Scrape ==
    /\ pc = "combined_scrape"
    /\ \E f \in 1..Len(MainSearches) :
       \E p \in [1..Len(MainSearches[f].urls) -> 1..Len(MainPages)] :
          LET found == MainSearches[f]
              pages == [i \in 1..Len(found.urls) |-> MainPages[p[i]]]
              scraped == combined_scrape(found, pages, MIN_LENGTH)
          IN  /\ Len(found.urls) <= NUM_URLS
              /\ full_query' = Join(Lit(<<" ">>), << research_prompt, queries[qi] >>)
              /\ zero_urls' = (zero_urls /\ found.ok /\ found.urls = << >>)
              /\ IF scraped.exc
                 THEN /\ pc' = "raised"
                      /\ UNCHANGED << aggregated_text, qi >>
                 ELSE /\ aggregated_text' =
                            Cat(Cat(aggregated_text, scraped.val), Lit(<<"\n">>))
                      /\ qi' = qi + 1
                      /\ pc' = IF qi < Len(queries) THEN "combined_scrape"
                               ELSE "format_text_with_ai"
    /\ api_requests' = 0
    /\ UNCHANGED << research_prompt, sec, queries, formatted_section, limited_section,
                    final_results, out_file, callVars >>

\* Line 236.
Format ==
    /\ pc = "format_text_with_ai"
    /\ \E a \in 1..Len(MainTextApis) :
          formatted_section' = format_text_with_ai(aggregated_text, MainTextApis[a])
    /\ api_requests' = 1
    /\ pc' = "ensure_length_limit"
    /\ UNCHANGED << research_prompt, sec, queries, qi, full_query, aggregated_text,
                    limited_section, final_results, out_file, zero_urls, callVars >>

\* Lines 159-181: the request is issued only past the early return.
ensure_length_limit_requests(text, limit) == IF StrLen(text) <= limit THEN 0 ELSE 1

\* Line 238.
EnforceLimit ==
    /\ pc = "ensure_length_limit"
    /\ \E a \in 1..Len(MainTextApis) :
          limited_section' =
              ensure_length_limit(formatted_section, SECTION_LIMIT, MainTextApis[a])
    /\ api_requests' = ensure_length_limit_requests(formatted_section, SECTION_LIMIT)
    /\ pc' = "store"
    /\ UNCHANGED << research_prompt, sec, queries, qi, full_query, aggregated_text,
                    formatted_section, final_results, out_file, zero_urls, callVars >>

\* Lines 239-240 and the loop's step: the section is stored and the loop moves on.
\* The locals of the iteration are dead from here on and are cleared.
Store ==
    /\ pc = "store"
    /\ final_results' = DictSet(final_results, SECTIONS[sec], limited_section)
    /\ IF sec < Len(SECTIONS)
       THEN /\ sec' = sec + 1
            /\ pc' = "generate_search_queries"
       ELSE /\ sec' = sec
            /\ pc' = "write"
    /\ queries' = << >>
    /\ qi' = 1
    /\ full_query' = Empty
    /\ aggregated_text' = Empty
    /\ formatted_section' = Empty
    /\ limited_section' = Empty
    /\ UNCHANGED << research_prompt, out_file, zero_urls, api_requests, callVars >>

\* Lines 243-249.
Write ==
    /\ pc = "write"
    /\ out_file' = [writes |-> out_file.writes + 1, data |-> ResearchPaper(final_results)]
    /\ pc' = "done"
    /\ UNCHANGED << research_prompt, sec, queries, qi, full_query, aggregated_text,
                    formatted_section, limited_section, final_results, zero_urls,
                    api_requests, callVars >>

Next == GenerateQueries \/ Scrape \/ Format \/ EnforceLimit \/ Store \/ Write

Spec == Init /\ [][Next]_vars

(***************************************************************************)
(* Single calls of the functions, on inputs drawn from bounded sets        *)
(***************************************************************************)

\* The most URLs a search returns in a single call of combined_scrape.
MaxUrls == 2

\* How often ensure_length_limit is applied again to its own result.
MaxReapply == 1

\* A small character limit, next to SECTION_LIMIT.
SmallLimit == 3

CallLimits == {0, 1, SmallLimit, SECTION_LIMIT}

\* Texts of every length around the small limits and around SECTION_LIMIT, and texts
\* with blanks and line breaks.
CallTexts ==
    [i \in 1..(SmallLimit + 3) |-> Rep("a", i - 1)]
    \o << Lit(<<" ", "a", " ">>),
          Lit(<<"a", "\n", "b">>),
          Rep("a", SECTION_LIMIT),
          Rep("a", SECTION_LIMIT + 1),
          Cat(Rep("a", SECTION_LIMIT), Lit(<<" ", "b">>)) >>

\* {"content": [{"text": a}, "s", {"text": b}]}: two text blocks around an item that
\* is no dict.
TwoBlockReply(a, b) ==
    ApiReply(JDict([content |->
        JList(<< JDict([text |-> JStr(a)]), JStr(Lit(<<"s">>)), JDict([text |-> JStr(b)]) >>)]))

\* {"messages": [{"content": s}]}
MessagesReply(s) ==
    ApiReply(JDict([messages |-> JList(<< JDict([content |-> JStr(s)]) >>)]))

\* Outcomes of one generative-API request: failures of the request, replies without
\* the expected fields, malformed replies, and replies of both shapes with texts
\* that are empty, short, several lines long and longer than every limit.
CallApis ==
    << ApiFailure,
       BareReply,
       ApiReply(JList(<< >>)),
       ApiReply(JOther(FALSE)),
       ApiReply(JDict([content |-> JOther(FALSE)])),
       ApiReply(JDict([content |-> JList(<< JDict([text |-> JOther(TRUE)]) >>)])),
       ApiReply(JDict([messages |-> JList(<< JStr(Q1) >>)])),
       ApiReply(JDict([messages |-> JList(<< >>)])),
       StringReply(Empty),
       StringReply(Lit(<<" ", "\n">>)),
       StringReply(Lit(<<" ", "q", "1", " ">>)),
       StringReply(Join(Lit(<<"\n">>), << Q1, Lit(<<" ">>), Q2, Empty >>)),
       BlockReply(Empty),
       BlockReply(Q1),
       BlockReply(Rep("b", SmallLimit)),
       BlockReply(Rep("b", SmallLimit + 1)),
       BlockReply(Rep("b", SECTION_LIMIT)),
       BlockReply(Rep("b", SECTION_LIMIT + 1)),
       TwoBlockReply(Q1, Q2),
       TwoBlockReply(Empty, Empty),
       MessagesReply(Join(Lit(<<"\r", "\n">>), << Q1, Q2 >>)),
       MessagesReply(Empty) >>

\* Outcomes of one page fetch: a failure, and pages whose text is empty, below, at
\* and above the minimum lengths.
CallPages ==
    << FetchFailure,
       FetchPage(<< >>),
       FetchPage(<< << Lit(<<" ">>) >>, << Lit(<<" ", "a">>), Lit(<<"b", "\n">>) >>, << Q1 >> >>),
       PageOfLength(1),
       PageOfLength(MIN_LENGTH - 1),
       PageOfLength(MIN_LENGTH) >>

CallMinLengths == {1, MIN_LENGTH}

CallTopics == << Lit(<<"a", "i">>), Lit(<<"s", "o", "l", "a", "r", " ", "p", "o", "w", "e", "r">>) >>

\* main() has not started: its variables keep their initial values throughout.
MainIdle ==
    /\ pc = "idle"
    /\ research_prompt = Empty
    /\ sec = 1
    /\ queries = << >>
    /\ qi = 1
    /\ full_query = Empty
    /\ aggregated_text = Empty
    /\ formatted_section = Empty
    /\ limited_section = Empty
    /\ final_results = << >>
    /\ out_file = [writes |-> 0, data |-> Empty]
    /\ zero_urls = TRUE

CallInit ==
    /\ MainIdle
    /\ phase = "call"
    /\ ret = << >>
    /\ api_requests = 0
    /\ \/ /\ fn = "scrape_page"
          /\ \E p \in 1..Len(CallPages) : args = [response |-> CallPages[p]]
       \/ /\ fn = "combined_scrape"
          /\ \E m \in CallMinLengths :
                \/ args = [found |-> SearchFailure, pages |-> << >>, min_length |-> m]
                \/ \E k \in 0..MaxUrls :
                   \E u \in [1..k -> {U1, U2}] :
                   \E p \in [1..k -> 1..Len(CallPages)] :
                      args = [found |-> SearchFound(u),
                              pages |-> [i \in 1..k |-> CallPages[p[i]]],
                              min_length |-> m]
       \/ /\ fn = "generate_search_queries"
          /\ \E s \in 1..Len(SECTIONS) :
             \E t \in 1..Len(CallTopics) :
             \E a \in 1..Len(CallApis) :
                args = [section |-> SECTIONS[s], topic |-> CallTopics[t], api |-> CallApis[a]]
       \/ /\ fn = "format_text_with_ai"
          /\ \E x \in 1..Len(CallTexts) :
             \E a \in 1..Len(CallApis) :
                args = [text |-> CallTexts[x], api |-> CallApis[a]]
       \/ /\ fn = "ensure_length_limit"
          /\ \E x \in 1..Len(CallTexts) :
             \E l \in CallLimits :
             \E a \in 1..Len(CallApis) :
                args = [text |-> CallTexts[x], limit |-> l, api |-> CallApis[a], round |-> 0]

CallScrapePage ==
    /\ fn = "scrape_page" /\ phase = "call"
    /\ ret' = scrape_page(args.response)
    /\ api_requests' = 0
    /\ phase' = "return"
    /\ UNCHANGED << mainVars, fn, args >>

CallCombinedScrape ==
    /\ fn = "combined_scrape" /\ phase = "call"
    /\ ret' = combined_scrape(args.found, args.pages, args.min_length)
    /\ api_requests' = 0
    /\ phase' = "return"
    /\ UNCHANGED << mainVars, fn, args >>

CallGenerateSearchQueries ==
    /\ fn = "generate_search_queries" /\ phase = "call"
    /\ ret' = generate_search_queries(args.section, args.topic, args.api)
    /\ api_requests' = 1
    /\ phase' = "return"
    /\ UNCHANGED << mainVars, fn, args >>

CallFormatTextWithAi ==
    /\ fn = "format_text_with_ai" /\ phase = "call"
    /\ ret' = format_text_with_ai(args.text, args.api)
    /\ api_requests' = 1
    /\ phase' = "return"
    /\ UNCHANGED << mainVars, fn, args >>

CallEnsureLengthLimit ==
    /\ fn = "ensure_length_limit" /\ phase = "call"
    /\ ret' = ensure_length_limit(args.text, args.limit, args.api)
    /\ api_requests' = ensure_length_limit_requests(args.text, args.limit)
    /\ phase' = "return"
    /\ UNCHANGED << mainVars, fn, args >>

\* The result is handed to ensure_length_limit once more, with the same limit and
\* any outcome of the request it may issue.
Reapply ==
    /\ fn = "ensure_length_limit" /\ phase = "return"
    /\ args.round < MaxReapply
    /\ \E a \in 1..Len(CallApis) :
          args' = [text |-> ret, limit |-> args.limit, api |-> CallApis[a],
                   round |-> args.round + 1]
    /\ phase' = "call"
    /\ UNCHANGED << mainVars, fn, ret, api_requests >>

CallNext ==
    \/ CallScrapePage
    \/ CallCombinedScrape
    \/ CallGenerateSearchQueries
    \/ CallFormatTextWithAi
    \/ CallEnsureLengthLimit
    \/ Reapply

CallSpec == CallInit /\ [][CallNext]_vars

(***************************************************************************)
(* Properties                                                              *)
(***************************************************************************)

Returned(f) == fn = f /\ phase = "return"

\* C1: every text ensure_length_limit returns is at most limit characters long; in
\* particular every section body main() stores is at most SECTION_LIMIT characters.
SectionsWithinLimit ==
    \A i \in 1..Len(final_results) : StrLen(final_results[i].content) <= SECTION_LIMIT

\* C2: generate_search_queries returns a non-empty list whatever the API answers, and
\* on a failed request or a reply whose parsing raises it returns the single query
\* "{topic} {section}".
QueriesNeverEmpty ==
    Returned("generate_search_queries") =>
        /\ ret # << >>
        /\ (~args.api.ok \/ ExtractText(args.api.json, Lit(<<"\n">>)).exc)
              => ret = << Join(Lit(<<" ">>), << args.topic, args.section >>) >>

\* C3: no failure of an external call leaves main(): the run is never ended by an
\* exception.
NoFailurePropagates == pc # "raised"

\* C4: when the request succeeds and the text extracted from the reply is empty,
\* format_text_with_ai returns its input, and so does ensure_length_limit on an input
\* over the limit.
EmptyReplyFallsBack ==
    /\ phase = "return"
    /\ \/ fn = "format_text_with_ai"
       \/ fn = "ensure_length_limit" /\ StrLen(args.text) > args.limit
    /\ args.api.ok
    /\ ExtractText(args.api.json, Lit(<<" ">>)) = Value(Empty)
    => ret = args.text

\* The positions of the fetched pages whose text is at least min_length long.
Qualifying(pages, min_length) ==
    SelectSeq([i \in 1..Len(pages) |-> i],
              LAMBDA i : StrLen(scrape_page(pages[i])) >= min_length)

\* C5: combined_scrape returns the blocks of exactly the URLs whose text is at least
\* min_length long, in the order the search returned them, and the sentinel when
\* there is no such URL.
AggregatesQualifyingBlocks ==
    Returned("combined_scrape") /\ args.found.ok =>
        LET q == Qualifying(args.pages, args.min_length)
            blocks == [j \in 1..Len(q) |->
                          Block(args.found.urls[q[j]], scrape_page(args.pages[q[j]]))]
        IN  /\ ~ret.exc
            /\ ret.val = IF q = << >> THEN SENTINEL ELSE Join(Empty, blocks)

\* Two URLs, the first one character short of min_length, the second exactly
\* min_length long.
AggregatesQualifyingBlocksWitness ==
    /\ Returned("combined_scrape")
    /\ args.found.ok
    /\ Len(args.found.urls) = 2
    /\ StrLen(scrape_page(args.pages[1])) = args.min_length - 1
    /\ StrLen(scrape_page(args.pages[2])) = args.min_length
    /\ args.min_length = MIN_LENGTH

\* C6: on a text within the limit ensure_length_limit returns the text and issues no
\* request; so a result within the limit, handed to it again, comes back unchanged.
WithinLimitUnchanged ==
    Returned("ensure_length_limit") /\ StrLen(args.text) <= args.limit =>
        /\ ret = args.text
        /\ api_requests = 0

\* A second application, to a first result that is exactly limit characters long,
\* with a reply at hand that would have changed it.
WithinLimitUnchangedWitness ==
    /\ Returned("ensure_length_limit")
    /\ args.round = 1
    /\ args.limit > 0
    /\ StrLen(args.text) = args.limit
    /\ args.api.ok
    /\ ExtractText(args.api.json, Lit(<<" ">>)).val \notin {Empty, args.text}

\* What one step of main() does to the order of the run: the sections are taken one
\* after another in declaration order; within a section the steps are query
\* generation, one combined_scrape per query in list order, formatting, length
\* enforcement, storing; the file is written once, after the sixth section is stored,
\* with each section's header, content and separator.  A combined_scrape step may
\* also end the run.
OrderedStep ==
    /\ pc = "generate_search_queries" =>
          /\ Len(final_results) = sec - 1
          /\ \/ pc' = "combined_scrape" /\ qi' = 1 /\ queries' # << >>
             \/ pc' = "format_text_with_ai" /\ queries' = << >>
    /\ pc = "combined_scrape" =>
          /\ full_query' = Cat(Cat(research_prompt, Lit(<<" ">>)), queries[qi])
          /\ queries' = queries
          /\ \/ pc' = "combined_scrape" /\ qi' = qi + 1 /\ qi' <= Len(queries)
             \/ pc' = "format_text_with_ai" /\ qi = Len(queries)
             \/ pc' = "raised"
    /\ pc = "format_text_with_ai" => pc' = "ensure_length_limit"
    /\ pc = "ensure_length_limit" => pc' = "store"
    /\ pc = "store" =>
          /\ final_results' = Append(final_results,
                                     [section |-> SECTIONS[sec],
                                      content |-> limited_section])
          /\ \/ sec < 6 /\ sec' = sec + 1 /\ pc' = "generate_search_queries"
             \/ sec = 6 /\ sec' = sec /\ pc' = "write"
    /\ pc # "store" => sec' = sec /\ final_results' = final_results
    /\ pc = "write" =>
          /\ pc' = "done"
          /\ out_file.writes = 0 /\ out_file'.writes = 1
          /\ Len(final_results) = 6
          /\ out_file'.data =
                Join(Empty,
                     [i \in 1..6 |->
                        Join(Empty, << SECTIONS[i], Lit(<<":", "\n">>),
                                       final_results[i].content,
                                       Lit(<<"\n", "\n">>),
                                       Rep("=", 80),
                                       Lit(<<"\n", "\n">>) >>)])
    /\ pc # "write" => out_file' = out_file
    /\ pc \in {"done", "raised"} => pc' = pc

\* The order of the steps, which holds of every run, ended by an exception or not.
PipelineOrder == [][OrderedStep]_vars

\* C7: in every run the six sections are taken one after another in declaration
\* order, each through query generation, one combined_scrape per query in list order,
\* formatting, length enforcement and storing, and the file is written exactly once,
\* after the sixth section is stored, with each section's header, content and
\* separator: every step keeps that order and none ends the run before the write.
EveryRunWritesAllSections == [][OrderedStep /\ pc' # "raised"]_vars

\* The file is written, and the sections hold different contents: one with scraped
\* text cut at the limit, one with rewritten prose, one with the sentinel.
PipelineOrderWitness ==
    /\ pc = "done"
    /\ out_file.writes = 1
    /\ StrLen(final_results[1].content) > SECTION_LIMIT
    /\ final_results[2].content = PROSE
    /\ final_results[6].content = Cat(SENTINEL, Lit(<<"\n">>))

\* C8: when every search returns no URL, the text handed to format_text_with_ai is
\* made of the sentinel alone (one line per query), and the section still goes
\* through formatting, length enforcement and storing, up to the write, with no
\* exception ending the run.
ZeroUrlsGiveSentinel ==
    zero_urls =>
        /\ pc # "raised"
        /\ pc = "format_text_with_ai" =>
              LET lines == SplitLines(aggregated_text)
              IN  /\ lines # << >>
                  /\ \A i \in 1..Len(lines) : lines[i] = SENTINEL

\* The positions of the pages whose fetch did not fail.
Fetched(pages) == SelectSeq([i \in 1..Len(pages) |-> i], LAMBDA i : pages[i].ok)

\* C9: scrape_page returns the empty string when the fetch fails, and never raises;
\* in combined_scrape a URL whose fetch failed adds nothing and does not stop the
\* loop: the result is the one obtained without that URL in the list.
FetchFailureIsSkipped ==
    /\ Returned("scrape_page") /\ ~args.response.ok => ret = Empty
    /\ Returned("combined_scrape") /\ args.found.ok =>
          LET f == Fetched(args.pages)
          IN  /\ ~ret.exc
              /\ ret = combined_scrape(
                          SearchFound([j \in 1..Len(f) |-> args.found.urls[f[j]]]),
                          [j \in 1..Len(f) |-> args.pages[f[j]]],
                          args.min_length)

\* A failed fetch followed by a page that is long enough, whose block is returned.
FetchFailureIsSkippedWitness ==
    /\ Returned("combined_scrape")
    /\ args.found.ok
    /\ Len(args.found.urls) = 2
    /\ ~args.pages[1].ok
    /\ args.pages[2].ok
    /\ StrLen(scrape_page(args.pages[2])) >= args.min_length
    /\ ret.val = Block(args.found.urls[2], scrape_page(args.pages[2]))

\* C10: on a text over the limit ensure_length_limit returns the reply's text when
\* the request succeeds and that text is within the limit, its first limit characters
\* followed by the marker when it is longer, and the first limit characters of the
\* input followed by the marker when the request fails or the reply cannot be
\* parsed; so a result is never longer than limit plus the marker, and is longer than
\* limit only where it was cut.
OverLimitResult ==
    Returned("ensure_length_limit") =>
        LET reply == ExtractText(args.api.json, Lit(<<" ">>))
            failed == ~args.api.ok \/ reply.exc
            over == StrLen(args.text) > args.limit
        IN  /\ over /\ failed => ret = Cat(Take(args.text, args.limit), MARKER)
            /\ over /\ ~failed /\ StrLen(reply.val) <= args.limit => ret = reply.val
            /\ over /\ ~failed /\ StrLen(reply.val) > args.limit
                  => ret = Cat(Take(reply.val, args.limit), MARKER)
            /\ StrLen(ret) <= args.limit + StrLen(MARKER)
            /\ StrLen(ret) > args.limit
                  => over /\ (failed \/ StrLen(reply.val) > args.limit)

\* A reply that is itself over SECTION_LIMIT: the result is SECTION_LIMIT characters
\* and the marker.
OverLimitResultWitness ==
    /\ Returned("ensure_length_limit")
    /\ args.limit = SECTION_LIMIT
    /\ StrLen(args.text) > args.limit
    /\ args.api.ok
    /\ StrLen(ExtractText(args.api.json, Lit(<<" ">>)).val) > args.limit
    /\ StrLen(ret) = SECTION_LIMIT + StrLen(MARKER)

====
